---- MODULE Spec2Model ----
(***************************************************************************)
(* Model of the AIS forwarder daemon (src/src/ais_forwarder.cpp): the      *)
(* connection supervisor of main(), the CRLF framing and prefix filter of  *)
(* its receive loop, and the configuration loading that precedes it.       *)
(* Bytes are integers (their ASCII codes); strings are sequences of bytes. *)
(***************************************************************************)
EXTENDS Integers, Sequences, FiniteSets, TLC

VARIABLES
    pc,                        \* position of main(): "getopt", "load_file", "load_env",
                               \* "configured", "exited", "aborted" before the main loop;
                               \* "outer", "sleep", "check", "select", "recv" in it
    ais_sock,                  \* main's ais_sock: -1 or the descriptor of the source connection
    was_connected,             \* main's was_connected
    connection_lost_notified,  \* main's connection_lost_notified
    leftover,                  \* main's leftover string
    sinceCheck,                \* now - last_health_check, in seconds
    openFds,                   \* descriptors the process holds open
    emitted,                   \* titles passed to send_notification by the last step
    notified,                  \* all titles passed to send_notification so far (first MaxNotes)
    datagrams,                 \* payloads passed to sendto by the last step
    sent,                      \* payloads passed to sendto on the current connection, if any
    stream,                    \* bytes recv returned on the current connection
    extracted,                 \* lines the framing loop extracted on the current connection
    ev,                        \* what the last step observed
    reads,                     \* reads that returned data on the current connection
    unread,                    \* bytes in the receive queue of the socket, not yet read
    arrived,                   \* bytes the peer's data brought to the current connection
    sinceProbe,                \* seconds since the last probe of the current connection,
                               \* or since it was established
    probes,                    \* probes made on the current connection (up to MaxProbes),
                               \* where they are counted
    timed,                     \* whether the probes are counted
    probed,                    \* what the calls of the probe returned, if the last step made one
    logged,                    \* lines the last step wrote to std::cout and std::cerr
    delivery,                  \* how the commands of send_notification ended in the last step
    dropped,                   \* the pending bytes the last step discarded (line 419)
    slept,                     \* seconds slept since the last connect attempt
    created,                   \* the descriptors socket() returned in the last step
    closed,                    \* the descriptors the last step closed
    config,                   \* main's Config record
    cmdline,                   \* the options getopt_long has returned, with their arguments
    environ,                   \* the environment load_env_config read, once it has
    loaded                     \* the file load_config_file opened and its lines, once it has

\* the state of the supervisor (lines 393-551) and of the configuration (lines 303-372)
supVars == <<ais_sock, was_connected, connection_lost_notified, leftover, sinceCheck,
             openFds, emitted, notified, datagrams, sent, stream, extracted, ev, reads,
             unread, arrived, sinceProbe, probes, timed, probed, logged, delivery,
             dropped, slept, created, closed>>
cfgVars == <<config, cmdline, environ, loaded>>
vars == <<pc, supVars, cfgVars>>

----------------------------------------------------------------------------
(* Bounds of the model *)

\* notifications recorded in the history
MaxNotes == 5
\* bytes received on one connection
MaxStream == 24
\* reads that return data on one connection
MaxReads == 3
\* options on the command line
MaxOpts == 2
\* lines of a configuration file
MaxFileLines == 2
\* variables set in the environment
MaxEnv == 2
\* probes counted on one connection
MaxProbes == 2

----------------------------------------------------------------------------
(* Program constants *)

HealthCheckInterval == 5
SelectTimeout == 2
RetryInterval == 10
RecvMax == 1023
npos == -1
NoSock == -1
MtSock == 3

CR == 13
LF == 10
NUL == 0

\* "\r\n"
delimiter == <<CR, LF>>
\* "!AIVDM"
AIVDM == <<33, 65, 73, 86, 68, 77>>
\* "!AIVDO"
AIVDO == <<33, 65, 73, 86, 68, 79>>

StartedTitle == "AIS Forwarder Started"
RestoredTitle == "AIS Connection Restored"
LostTitle == "AIS Connection Lost"
ErrorTitle == "AIS Connection Error"
ClosedTitle == "AIS Connection Closed"
FailedTitle == "AIS Connection Failed"
SocketErrorTitle == "AIS Socket Error"

----------------------------------------------------------------------------
(* Framing and filtering: lines 530-549 *)

\* std::string(buffer) of a NUL-terminated char buffer: the bytes before the first NUL
CString(bytes) ==
    IF \E i \in 1..Len(bytes) : bytes[i] = NUL
    THEN SubSeq(bytes, 1, (CHOOSE i \in 1..Len(bytes) :
                              /\ bytes[i] = NUL
                              /\ \A j \in 1..(i - 1) : bytes[j] # NUL) - 1)
    ELSE bytes

\* std::string::find: the 0-based position of the first occurrence of d in s, or npos
Find(s, d) ==
    LET hits == {i \in 0..(Len(s) - Len(d)) : SubSeq(s, i + 1, i + Len(d)) = d}
    IN IF hits = {} THEN npos ELSE CHOOSE i \in hits : \A j \in hits : i <= j

\* nmea_str.rfind(prefix, 0) == 0
StartsWith(s, prefix) ==
    /\ Len(s) >= Len(prefix)
    /\ SubSeq(s, 1, Len(prefix)) = prefix

\* Accepted with the marker looked for at any position (find instead of rfind(.., 0))
AcceptedAnywhere(nmea_str) == Find(nmea_str, AIVDM) # npos \/ Find(nmea_str, AIVDO) # npos

\* the filter of line 545
Accepted(nmea_str) == StartsWith(nmea_str, AIVDM) \/ StartsWith(nmea_str, AIVDO)

\* ProcessLeftover sending each line before the delimiter is cut off it
RECURSIVE ProcessLeftoverWithDelimiter(_)
ProcessLeftoverWithDelimiter(buf) ==
    LET pos == Find(buf, delimiter)
    IN IF pos = npos
       THEN [lines |-> <<>>, out |-> <<>>, rest |-> buf]
       ELSE LET nmea_str == SubSeq(buf, 1, pos)
                erased == SubSeq(buf, pos + Len(delimiter) + 1, Len(buf))
                more == ProcessLeftoverWithDelimiter(erased)
            IN [lines |-> <<nmea_str>> \o more.lines,
                out |-> (IF Accepted(nmea_str)
                         THEN <<nmea_str \o delimiter>> ELSE <<>>) \o more.out,
                rest |-> more.rest]

\* the while loop of lines 537-549 on the buffer buf: the lines it extracts, the
\* payloads it hands to sendto, and what it leaves in leftover
RECURSIVE ProcessLeftover(_)
ProcessLeftover(buf) ==
    LET pos == Find(buf, delimiter)
    IN IF pos = npos
       THEN [lines |-> <<>>, out |-> <<>>, rest |-> buf]
       ELSE LET nmea_str == SubSeq(buf, 1, pos)
                erased == SubSeq(buf, pos + Len(delimiter) + 1, Len(buf))
                more == ProcessLeftover(erased)
            IN [lines |-> <<nmea_str>> \o more.lines,
                out |-> (IF Accepted(nmea_str) THEN <<nmea_str>> ELSE <<>>) \o more.out,
                rest |-> more.rest]

\* lines 531-532: what is appended to leftover for the bytes recv returned
AppendReceived(buf, bytes) == buf \o CString(bytes)

----------------------------------------------------------------------------
(* Configuration: struct Config and lines 57-109, 303-372 *)

Params == {"ais_ip", "ais_port", "mt_ip", "mt_port", "notification_user"}
PortParams == {"ais_port", "mt_port"}

\* the defaults of struct Config (lines 47-54)
DefaultPortAis == 39150
DefaultPortMt == 10170
\* "192.168.50.37"
DefaultAisIp == <<49, 57, 50, 46, 49, 54, 56, 46, 53, 48, 46, 51, 55>>
\* "5.9.207.224"
DefaultMtIp == <<53, 46, 57, 46, 50, 48, 55, 46, 50, 50, 52>>
\* "david"
DefaultUser == <<100, 97, 118, 105, 100>>

DefaultConfig ==
    [ais_ip |-> DefaultAisIp, ais_port |-> DefaultPortAis,
     mt_ip |-> DefaultMtIp, mt_port |-> DefaultPortMt,
     notification_user |-> DefaultUser, config_file |-> <<>>]

IntMax == 2147483647

IsSpace(c) == c \in {32, 9, 10, 11, 12, 13}
IsDigit(c) == c \in 48..57

\* the value of a run of decimal digits
RECURSIVE DigitsValue(_)
DigitsValue(ds) ==
    IF ds = <<>> THEN 0
    ELSE 10 * DigitsValue(SubSeq(ds, 1, Len(ds) - 1)) + (ds[Len(ds)] - 48)

\* std::stoi: leading white space is skipped, then an optional sign and the longest
\* run of digits are converted; with no digit, or a value out of int's range, it
\* throws (ok = FALSE)
Stoi(text) ==
    LET spaces == {i \in 1..Len(text) : \A j \in 1..i : IsSpace(text[j])}
        s0 == Cardinality(spaces)
        signed == s0 < Len(text) /\ text[s0 + 1] \in {43, 45}
        d0 == IF signed THEN s0 + 1 ELSE s0
        run == {i \in (d0 + 1)..Len(text) : \A j \in (d0 + 1)..i : IsDigit(text[j])}
        n == Cardinality(run)
        mag == DigitsValue(SubSeq(text, d0 + 1, d0 + n))
        val == IF signed /\ text[s0 + 1] = 45 THEN 0 - mag ELSE mag
    IN IF n = 0 \/ val > IntMax \/ val < 0 - IntMax - 1
       THEN [ok |-> FALSE, value |-> 0]
       ELSE [ok |-> TRUE, value |-> val]

\* the assignment of a text to a Config field: the port fields go through std::stoi
Assign(cfg, param, text) ==
    IF param \in PortParams
    THEN IF Stoi(text).ok
         THEN [ok |-> TRUE, cfg |-> [cfg EXCEPT ![param] = Stoi(text).value]]
         ELSE [ok |-> FALSE, cfg |-> cfg]
    ELSE [ok |-> TRUE, cfg |-> [cfg EXCEPT ![param] = text]]

\* the keys of the configuration file (lines 80-84)
\* "ais_ip"
KeyAisIp == <<97, 105, 115, 95, 105, 112>>
\* "ais_port"
KeyAisPort == <<97, 105, 115, 95, 112, 111, 114, 116>>
\* "mt_ip"
KeyMtIp == <<109, 116, 95, 105, 112>>
\* "mt_port"
KeyMtPort == <<109, 116, 95, 112, 111, 114, 116>>
\* "notification_user"
KeyUser == <<110, 111, 116, 105, 102, 105, 99, 97, 116, 105, 111, 110, 95, 117, 115, 101, 114>>

ParamOfKey(key) ==
    IF key = KeyAisIp THEN "ais_ip"
    ELSE IF key = KeyAisPort THEN "ais_port"
    ELSE IF key = KeyMtIp THEN "mt_ip"
    ELSE IF key = KeyMtPort THEN "mt_port"
    ELSE IF key = KeyUser THEN "notification_user"
    ELSE "none"

\* lines 75-78: erase the leading and the trailing blanks and tabs
Trim(text) ==
    LET keep == {i \in 1..Len(text) : text[i] \notin {32, 9}}
    IN IF keep = {} THEN <<>>
       ELSE SubSeq(text, CHOOSE i \in keep : \A j \in keep : i <= j,
                         CHOOSE i \in keep : \A j \in keep : j <= i)

\* lines 66-78: the key and the value of one line of the file, or no entry
ParseLine(line) ==
    IF line = <<>> \/ line[1] = 35 THEN [entry |-> FALSE, key |-> <<>>, value |-> <<>>]
    ELSE LET eq_pos == Find(line, <<61>>)
         IN IF eq_pos = npos THEN [entry |-> FALSE, key |-> <<>>, value |-> <<>>]
            ELSE [entry |-> TRUE,
                  key |-> Trim(SubSeq(line, 1, eq_pos)),
                  value |-> Trim(SubSeq(line, eq_pos + 2, Len(line)))]

\* load_config_file (lines 57-88) on the lines of a file that could be opened: the
\* configuration after the loop, or ok = FALSE when std::stoi threw
RECURSIVE LoadConfigFile(_, _)
LoadConfigFile(lines, cfg) ==
    IF lines = <<>> THEN [ok |-> TRUE, cfg |-> cfg]
    ELSE LET e == ParseLine(Head(lines))
             param == ParamOfKey(e.key)
         IN IF ~e.entry \/ param = "none" THEN LoadConfigFile(Tail(lines), cfg)
            ELSE LET a == Assign(cfg, param, e.value)
                 IN IF a.ok THEN LoadConfigFile(Tail(lines), a.cfg)
                    ELSE [ok |-> FALSE, cfg |-> cfg]

\* the environment variables of lines 94-108, in the order they are read
EnvOrder == <<"ais_ip", "ais_port", "mt_ip", "mt_port", "notification_user">>
NoText == <<0>>

\* load_env_config (lines 91-109) from the k-th variable on; env maps each
\* parameter to the text of its variable, or to NoText when getenv returns nullptr
RECURSIVE LoadEnvFrom(_, _, _)
LoadEnvFrom(k, env, cfg) ==
    IF k > Len(EnvOrder) THEN [ok |-> TRUE, cfg |-> cfg]
    ELSE IF env[EnvOrder[k]] = NoText THEN LoadEnvFrom(k + 1, env, cfg)
    ELSE LET a == Assign(cfg, EnvOrder[k], env[EnvOrder[k]])
         IN IF a.ok THEN LoadEnvFrom(k + 1, env, a.cfg)
            ELSE [ok |-> FALSE, cfg |-> cfg]

\* the parameter an option letter sets (lines 330-344)
ParamOfOption(c) ==
    IF c = "a" THEN "ais_ip"
    ELSE IF c = "p" THEN "ais_port"
    ELSE IF c = "m" THEN "mt_ip"
    ELSE IF c = "t" THEN "mt_port"
    ELSE "notification_user"

\* lines 322-351: getopt_long returned the option c with the argument text
ParseOption(c, text) ==
    /\ pc = "getopt"
    /\ Len(cmdline) < MaxOpts
    /\ cmdline' = Append(cmdline, <<c, text>>)
    /\ IF c \in {"h", "?"}
       THEN pc' = "exited" /\ config' = config
       ELSE IF c = "c"
       THEN pc' = "getopt" /\ config' = [config EXCEPT !.config_file = text]
       ELSE LET a == Assign(config, ParamOfOption(c), text)
            IN /\ pc' = IF a.ok THEN "getopt" ELSE "aborted"
               /\ config' = a.cfg
    /\ UNCHANGED <<environ, loaded, supVars>>

\* line 322: getopt_long returned -1
OptionsDone ==
    /\ pc = "getopt"
    /\ pc' = "load_file"
    /\ UNCHANGED <<cfgVars, supVars>>

\* what stands for a file that cannot be opened
Missing == << <<-1>> >>

\* lines 355-367: files maps "custom" (the file of --config), "etc"
\* (/etc/ais_forwarder.conf) and "cwd" (./ais_forwarder.conf) to the lines of the
\* file, or to Missing when it cannot be opened
LoadFiles(files) ==
    /\ pc = "load_file"
    /\ LET path == IF config.config_file # <<>> THEN "custom"
                   ELSE IF files["etc"] # Missing THEN "etc"
                   ELSE "cwd"
           opened == files[path] # Missing
           r == IF opened THEN LoadConfigFile(files[path], config)
                ELSE [ok |-> TRUE, cfg |-> config]
       IN /\ loaded' = IF opened THEN [path |-> path, lines |-> files[path]]
                       ELSE [path |-> "none", lines |-> <<>>]
          /\ config' = r.cfg
          /\ pc' = IF r.ok THEN "load_env" ELSE "aborted"
    /\ UNCHANGED <<cmdline, environ, supVars>>

\* line 370: load_env_config under the environment env
LoadEnv(env) ==
    /\ pc = "load_env"
    /\ LET r == LoadEnvFrom(1, env, config)
       IN /\ config' = r.cfg
          /\ pc' = IF r.ok THEN "configured" ELSE "aborted"
    /\ environ' = env
    /\ UNCHANGED <<cmdline, loaded, supVars>>

----------------------------------------------------------------------------
(* is_connection_alive: lines 178-216 *)

Errnos == {"EPIPE", "ECONNRESET", "ENOTCONN", "EAGAIN", "ETIMEDOUT"}

\* sendRes: result of the zero-length send; gsRet, soError: getsockopt's return and
\* SO_ERROR; peekRes: result of the MSG_PEEK recv; the errno of each failing call
IsConnectionAlive(sendRes, sendErrno, gsRet, soError, peekRes, peekErrno) ==
    IF sendRes < 0 /\ sendErrno \in {"EPIPE", "ECONNRESET", "ENOTCONN"} THEN FALSE
    ELSE IF gsRet # 0 \/ soError # 0 THEN FALSE
    ELSE IF peekRes = 0 THEN FALSE
    ELSE IF peekRes < 0
         THEN IF peekErrno = "EAGAIN" THEN TRUE
              ELSE IF peekErrno \in {"ECONNRESET", "ENOTCONN", "EPIPE"} THEN FALSE
              ELSE TRUE
    ELSE TRUE

\* the step made no probe
NoProbe == [calls |-> 0, send |-> "none", getsockopt |-> "none", peek |-> "none"]

\* what a call of the probe observed: "ok", or "error" when it failed, and for the
\* peek "data" when it read a byte, "no_data" when it failed with EAGAIN or
\* EWOULDBLOCK, "closed" when it returned 0
SendSaw(snd) == IF snd[1] < 0 THEN "error" ELSE "ok"
GetsockoptSaw(gso) == IF gso[1] # 0 \/ gso[2] # 0 THEN "error" ELSE "ok"
PeekSaw(peek) ==
    IF peek[1] > 0 THEN "data"
    ELSE IF peek[1] = 0 THEN "closed"
    ELSE IF peek[2] = "EAGAIN" THEN "no_data"
    ELSE "error"

\* the calls is_connection_alive made, in their order (send, getsockopt, peek), and
\* what each observed: it returns at line 186 before the getsockopt, and at lines 186
\* and 196 before the peek
ProbeCalls(snd, gso, peek) ==
    IF snd[1] < 0 /\ snd[2] \in {"EPIPE", "ECONNRESET", "ENOTCONN"}
    THEN [calls |-> 1, send |-> SendSaw(snd), getsockopt |-> "none", peek |-> "none"]
    ELSE IF gso[1] # 0 \/ gso[2] # 0
    THEN [calls |-> 2, send |-> SendSaw(snd), getsockopt |-> GetsockoptSaw(gso),
          peek |-> "none"]
    ELSE [calls |-> 3, send |-> SendSaw(snd), getsockopt |-> GetsockoptSaw(gso),
          peek |-> PeekSaw(peek)]

----------------------------------------------------------------------------
(* Logging and notification: lines 138-156 and the uses of get_timestamp *)

\* a line written to std::cout or std::cerr; stamped: it begins with get_timestamp()
LogLine(stamped, text) == [stamped |-> stamped, text |-> text]

\* line 401
AttemptLog == LogLine(TRUE, "Attempting to connect to AIS transponder...")
\* lines 405-406
SuccessLog == LogLine(TRUE, "Successfully connected to AIS transponder")
\* lines 222-223
SocketLog == LogLine(TRUE, "Error creating AIS socket")
\* line 165, or line 170 with "send" for "receive"
SetTimeoutLog == LogLine(FALSE, "Failed to set receive timeout")
\* lines 257-258
TimeoutsLog == LogLine(TRUE, "Failed to set socket timeouts")
\* lines 443-446
ProbeLog == LogLine(TRUE, "AIS connection health check failed - connection lost")
\* lines 473-476
SelectLog == LogLine(TRUE, "Error in select() call - connection may be broken")
\* lines 497-500
RecvLog == LogLine(TRUE, "Error reading from AIS socket - connection may be lost")
\* lines 514-517
ClosedLog == LogLine(TRUE, "AIS connection closed by remote host")

\* what connect_to_ais and set_socket_timeout write when the attempt fails for the
\* given cause (lines 164-172, 221-226, 250-253, 256-261)
ConnectFailureLogs(cause) ==
    IF cause = "socket_failed" THEN <<SocketLog>>
    ELSE IF cause = "timeout_failed" THEN <<SetTimeoutLog, TimeoutsLog>>
    ELSE <<>>

\* what a failure branch of the monitoring loop writes
TeardownLog(cause) ==
    IF cause = "probe_dead" THEN ProbeLog
    ELSE IF cause = "select_error" THEN SelectLog
    ELSE IF cause = "recv_error" THEN RecvLog
    ELSE ClosedLog

\* how the two commands of send_notification ended (lines 141 and 146): system()'s
\* return value is not looked at
DeliveryOutcomes == [syslog : {"ok", "failed"}, desktop : {"ok", "failed"}]

\* one outcome for each notification sent
Deliveries(titles) == [1..Len(titles) -> DeliveryOutcomes]

----------------------------------------------------------------------------
(* The supervisor: main(), lines 393-551 *)

\* the history of notification titles keeps its first MaxNotes entries
Record(titles) ==
    LET all == notified \o titles
    IN IF Len(all) <= MaxNotes THEN all ELSE SubSeq(all, 1, MaxNotes)

\* socket(): the lowest descriptor not in use
NewFd == CHOOSE fd \in MtSock..(MtSock + Cardinality(openFds) + 1) :
            /\ fd \notin openFds
            /\ \A g \in MtSock..(fd - 1) : g \in openFds

\* lines 394-395: the two flags of the notification logic before the main loop
FlagsInit ==
    /\ was_connected = FALSE
    /\ connection_lost_notified = FALSE

\* lines 393-396: the supervisor's other variables before the main loop
SocketInit ==
    /\ ais_sock = NoSock
    /\ leftover = <<>>
    /\ sinceCheck = 0
    /\ openFds = {MtSock}
    /\ emitted = <<>>
    /\ notified = <<>>
    /\ datagrams = <<>>
    /\ sent = <<>>
    /\ stream = <<>>
    /\ extracted = <<>>
    /\ ev = "start"
    /\ reads = 0
    /\ unread = <<>>
    /\ arrived = <<>>
    /\ sinceProbe = 0
    /\ probes = 0
    /\ probed = NoProbe
    /\ logged = <<>>
    /\ delivery = <<>>
    /\ dropped = <<>>
    /\ slept = 0
    /\ created = <<>>
    /\ closed = <<>>

\* lines 393-396: the supervisor's variables before the main loop
SupInit ==
    /\ FlagsInit
    /\ SocketInit

\* line 304: the configuration before anything was read
CfgInit ==
    /\ config = DefaultConfig
    /\ cmdline = <<>>
    /\ environ = [p \in Params |-> NoText]
    /\ loaded = [path |-> "none", lines |-> <<>>]

\* the main loop is entered (line 398), here with the default configuration
Init ==
    /\ pc = "outer"
    /\ timed = FALSE
    /\ SupInit
    /\ CfgInit

\* the main loop is entered, the probes of every connection being counted
TimedInit ==
    /\ pc = "outer"
    /\ timed = TRUE
    /\ SupInit
    /\ CfgInit

\* the main loop entered with any values of the two flags: the branches of lines
\* 404-431, which are written for every combination of them, applied to all four
BranchInit ==
    /\ pc = "outer"
    /\ timed = FALSE
    /\ was_connected \in BOOLEAN
    /\ connection_lost_notified \in BOOLEAN
    /\ SocketInit
    /\ CfgInit

\* main() is entered (line 303)
ConfigInit ==
    /\ pc = "getopt"
    /\ timed = FALSE
    /\ SupInit
    /\ CfgInit

\* ConnectSucceeded with the reset of connection_lost_notified (line 418) left out
ConnectSucceededStaleFlag ==
    /\ pc = "outer"
    /\ ais_sock = NoSock
    /\ ais_sock' = NewFd
    /\ openFds' = openFds \cup {NewFd}
    /\ emitted' = IF was_connected \/ connection_lost_notified
                  THEN <<RestoredTitle>> ELSE <<StartedTitle>>
    /\ notified' = Record(emitted')
    /\ was_connected' = TRUE
    /\ leftover' = <<>>
    /\ sinceCheck' = 0
    /\ pc' = "check"
    /\ ev' = "connect_ok"
    /\ reads' = 0
    /\ datagrams' = <<>>
    /\ sent' = <<>>
    /\ stream' = <<>>
    /\ extracted' = <<>>
    /\ unread' = <<>>
    /\ arrived' = <<>>
    /\ sinceProbe' = 0
    /\ probes' = 0
    /\ probed' = NoProbe
    /\ logged' = <<AttemptLog, SuccessLog>>
    /\ dropped' = leftover
    /\ slept' = 0
    /\ created' = <<NewFd>>
    /\ closed' = <<>>
    /\ delivery' \in Deliveries(emitted')
    /\ UNCHANGED connection_lost_notified
    /\ UNCHANGED <<timed, cfgVars>>

\* ConnectSucceeded with the clearing of leftover (line 419) left out
ConnectSucceededKeepsLeftover ==
    /\ pc = "outer"
    /\ ais_sock = NoSock
    /\ ais_sock' = NewFd
    /\ openFds' = openFds \cup {NewFd}
    /\ emitted' = IF was_connected \/ connection_lost_notified
                  THEN <<RestoredTitle>> ELSE <<StartedTitle>>
    /\ notified' = Record(emitted')
    /\ was_connected' = TRUE
    /\ connection_lost_notified' = FALSE
    /\ sinceCheck' = 0
    /\ pc' = "check"
    /\ ev' = "connect_ok"
    /\ reads' = 0
    /\ datagrams' = <<>>
    /\ sent' = <<>>
    /\ stream' = <<>>
    /\ extracted' = <<>>
    /\ unread' = <<>>
    /\ arrived' = <<>>
    /\ sinceProbe' = 0
    /\ probes' = 0
    /\ probed' = NoProbe
    /\ logged' = <<AttemptLog, SuccessLog>>
    /\ dropped' = <<>>
    /\ slept' = 0
    /\ created' = <<NewFd>>
    /\ closed' = <<>>
    /\ delivery' \in Deliveries(emitted')
    /\ UNCHANGED leftover
    /\ UNCHANGED <<timed, cfgVars>>

\* lines 400-419: connect_to_ais returned a descriptor
ConnectSucceeded ==
    /\ pc = "outer"
    /\ ais_sock = NoSock
    /\ ais_sock' = NewFd
    /\ openFds' = openFds \cup {NewFd}
    /\ emitted' = IF was_connected \/ connection_lost_notified
                  THEN <<RestoredTitle>> ELSE <<StartedTitle>>
    /\ notified' = Record(emitted')
    /\ was_connected' = TRUE
    /\ connection_lost_notified' = FALSE
    /\ leftover' = <<>>
    /\ sinceCheck' = 0
    /\ pc' = "check"
    /\ ev' = "connect_ok"
    /\ reads' = 0
    /\ datagrams' = <<>>
    /\ sent' = <<>>
    /\ stream' = <<>>
    /\ extracted' = <<>>
    /\ unread' = <<>>
    /\ arrived' = <<>>
    /\ sinceProbe' = 0
    /\ probes' = 0
    /\ probed' = NoProbe
    /\ logged' = <<AttemptLog, SuccessLog>>
    /\ dropped' = leftover
    /\ slept' = 0
    /\ created' = <<NewFd>>
    /\ closed' = <<>>
    /\ delivery' \in Deliveries(emitted')
    /\ UNCHANGED <<timed, cfgVars>>

\* what connect_to_ais itself notifies when it fails for the given cause (lines 220-261)
ConnectFailureNotes(cause) ==
    IF cause = "socket_failed" THEN <<SocketErrorTitle>> ELSE <<>>

\* ConnectFailed ending the program instead of sleeping and retrying
ConnectFailedExits(cause) ==
    /\ pc = "outer"
    /\ ais_sock = NoSock
    /\ emitted' = ConnectFailureNotes(cause)
    /\ notified' = Record(emitted')
    /\ pc' = "exited"
    /\ ev' = cause
    /\ datagrams' = <<>>
    /\ probed' = NoProbe
    /\ logged' = <<AttemptLog>> \o ConnectFailureLogs(cause)
    /\ dropped' = <<>>
    /\ slept' = 0
    /\ created' = IF cause = "socket_failed" THEN <<>> ELSE <<NewFd>>
    /\ closed' = IF cause = "socket_failed" THEN <<>> ELSE <<NewFd>>
    /\ delivery' \in Deliveries(emitted')
    /\ UNCHANGED <<ais_sock, was_connected, connection_lost_notified, leftover,
                   sinceCheck, openFds, sent, stream, extracted, reads,
                   unread, arrived, sinceProbe, probes>>
    /\ UNCHANGED <<timed, cfgVars>>

\* ConnectFailed setting connection_lost_notified at every failed attempt
ConnectFailedSetsFlag(cause) ==
    /\ pc = "outer"
    /\ ais_sock = NoSock
    /\ LET fromMain == IF was_connected /\ ~connection_lost_notified
                       THEN <<FailedTitle>> ELSE <<>>
       IN emitted' = ConnectFailureNotes(cause) \o fromMain
    /\ connection_lost_notified' = TRUE
    /\ notified' = Record(emitted')
    /\ pc' = "sleep"
    /\ ev' = cause
    /\ datagrams' = <<>>
    /\ probed' = NoProbe
    /\ logged' = <<AttemptLog>> \o ConnectFailureLogs(cause)
    /\ dropped' = <<>>
    /\ slept' = 0
    /\ created' = IF cause = "socket_failed" THEN <<>> ELSE <<NewFd>>
    /\ closed' = IF cause = "socket_failed" THEN <<>> ELSE <<NewFd>>
    /\ delivery' \in Deliveries(emitted')
    /\ UNCHANGED <<ais_sock, was_connected, leftover, sinceCheck, openFds,
                   sent, stream, extracted, reads, unread, arrived, sinceProbe, probes>>
    /\ UNCHANGED <<timed, cfgVars>>

\* ConnectFailed with the test of line 422 reduced to was_connected
ConnectFailedRenotifies(cause) ==
    /\ pc = "outer"
    /\ ais_sock = NoSock
    /\ LET fromMain == IF was_connected THEN <<FailedTitle>> ELSE <<>>
       IN /\ emitted' = ConnectFailureNotes(cause) \o fromMain
          /\ connection_lost_notified' =
                 IF was_connected THEN TRUE ELSE connection_lost_notified
    /\ notified' = Record(emitted')
    /\ pc' = "sleep"
    /\ ev' = cause
    /\ datagrams' = <<>>
    /\ probed' = NoProbe
    /\ logged' = <<AttemptLog>> \o ConnectFailureLogs(cause)
    /\ dropped' = <<>>
    /\ slept' = 0
    /\ created' = IF cause = "socket_failed" THEN <<>> ELSE <<NewFd>>
    /\ closed' = IF cause = "socket_failed" THEN <<>> ELSE <<NewFd>>
    /\ delivery' \in Deliveries(emitted')
    /\ UNCHANGED <<ais_sock, was_connected, leftover, sinceCheck, openFds,
                   sent, stream, extracted, reads, unread, arrived, sinceProbe, probes>>
    /\ UNCHANGED <<timed, cfgVars>>

\* ConnectFailed with the socket whose timeouts could not be set returned to main
\* (the close and the return of lines 259-260 left out)
ConnectFailedKeepsSocket(cause) ==
    /\ pc = "outer"
    /\ ais_sock = NoSock
    /\ LET fromMain == IF was_connected /\ ~connection_lost_notified
                       THEN <<FailedTitle>> ELSE <<>>
       IN /\ emitted' = ConnectFailureNotes(cause) \o fromMain
          /\ connection_lost_notified' =
                 IF was_connected /\ ~connection_lost_notified
                 THEN TRUE ELSE connection_lost_notified
    /\ notified' = Record(emitted')
    /\ pc' = IF cause = "timeout_failed" THEN "check" ELSE "sleep"
    /\ ais_sock' = IF cause = "timeout_failed" THEN NewFd ELSE ais_sock
    /\ openFds' = IF cause = "timeout_failed" THEN openFds \cup {NewFd} ELSE openFds
    /\ ev' = cause
    /\ datagrams' = <<>>
    /\ probed' = NoProbe
    /\ logged' = <<AttemptLog>> \o ConnectFailureLogs(cause)
    /\ dropped' = <<>>
    /\ slept' = 0
    /\ created' = IF cause = "socket_failed" THEN <<>> ELSE <<NewFd>>
    /\ closed' = IF cause = "connect_failed" THEN <<NewFd>> ELSE <<>>
    /\ delivery' \in Deliveries(emitted')
    /\ UNCHANGED <<was_connected, leftover, sinceCheck,
                   sent, stream, extracted, reads, unread, arrived, sinceProbe, probes>>
    /\ UNCHANGED <<timed, cfgVars>>

\* ConnectFailed with the close of line 251 left out: the socket whose connect
\* failed stays open
ConnectFailedLeaksSocket(cause) ==
    /\ pc = "outer"
    /\ ais_sock = NoSock
    /\ LET fromMain == IF was_connected /\ ~connection_lost_notified
                       THEN <<FailedTitle>> ELSE <<>>
       IN /\ emitted' = ConnectFailureNotes(cause) \o fromMain
          /\ connection_lost_notified' =
                 IF was_connected /\ ~connection_lost_notified
                 THEN TRUE ELSE connection_lost_notified
    /\ notified' = Record(emitted')
    /\ pc' = "sleep"
    /\ ev' = cause
    /\ datagrams' = <<>>
    /\ probed' = NoProbe
    /\ logged' = <<AttemptLog>> \o ConnectFailureLogs(cause)
    /\ dropped' = <<>>
    /\ slept' = 0
    /\ created' = IF cause = "socket_failed" THEN <<>> ELSE <<NewFd>>
    /\ closed' = IF cause = "timeout_failed" THEN <<NewFd>> ELSE <<>>
    /\ openFds' = IF cause = "connect_failed" THEN openFds \cup {NewFd} ELSE openFds
    /\ delivery' \in Deliveries(emitted')
    /\ UNCHANGED <<ais_sock, was_connected, leftover, sinceCheck,
                   sent, stream, extracted, reads, unread, arrived, sinceProbe, probes>>
    /\ UNCHANGED <<timed, cfgVars>>

\* lines 420-431 after connect_to_ais (lines 219-264) returned -1 for the given cause:
\* "socket_failed" (221-226), "connect_failed" (250-253), "timeout_failed" (256-261)
ConnectFailed(cause) ==
    /\ pc = "outer"
    /\ ais_sock = NoSock
    /\ LET fromMain == IF was_connected /\ ~connection_lost_notified
                       THEN <<FailedTitle>> ELSE <<>>
       IN /\ emitted' = ConnectFailureNotes(cause) \o fromMain
          /\ connection_lost_notified' =
                 IF was_connected /\ ~connection_lost_notified
                 THEN TRUE ELSE connection_lost_notified
    /\ notified' = Record(emitted')
    /\ pc' = "sleep"
    /\ ev' = cause
    /\ datagrams' = <<>>
    /\ probed' = NoProbe
    /\ logged' = <<AttemptLog>> \o ConnectFailureLogs(cause)
    /\ dropped' = <<>>
    /\ slept' = 0
    /\ created' = IF cause = "socket_failed" THEN <<>> ELSE <<NewFd>>
    /\ closed' = IF cause = "socket_failed" THEN <<>> ELSE <<NewFd>>
    /\ delivery' \in Deliveries(emitted')
    /\ UNCHANGED <<ais_sock, was_connected, leftover, sinceCheck, openFds,
                   sent, stream, extracted, reads, unread, arrived, sinceProbe, probes>>
    /\ UNCHANGED <<timed, cfgVars>>

\* Sleep with the wait left out: the next attempt is made at once
SleepSkipped ==
    /\ pc = "sleep"
    /\ pc' = "outer"
    /\ ev' = "slept"
    /\ emitted' = <<>>
    /\ datagrams' = <<>>
    /\ probed' = NoProbe
    /\ logged' = <<>>
    /\ dropped' = <<>>
    /\ slept' = slept
    /\ created' = <<>>
    /\ closed' = <<>>
    /\ delivery' = <<>>
    /\ UNCHANGED <<ais_sock, was_connected, connection_lost_notified, leftover,
                   sinceCheck, openFds, notified, sent, stream, extracted, reads,
                   unread, arrived, sinceProbe, probes>>
    /\ UNCHANGED <<timed, cfgVars>>

\* line 429-430: sleep(10); continue
Sleep ==
    /\ pc = "sleep"
    /\ pc' = "outer"
    /\ ev' = "slept"
    /\ emitted' = <<>>
    /\ datagrams' = <<>>
    /\ probed' = NoProbe
    /\ logged' = <<>>
    /\ dropped' = <<>>
    /\ slept' = slept + RetryInterval
    /\ created' = <<>>
    /\ closed' = <<>>
    /\ delivery' = <<>>
    /\ UNCHANGED <<ais_sock, was_connected, connection_lost_notified, leftover,
                   sinceCheck, openFds, notified, sent, stream, extracted, reads,
                   unread, arrived, sinceProbe, probes>>
    /\ UNCHANGED <<timed, cfgVars>>

\* TearDown with the close of the socket (lines 454, 484, 508, 525) left out
TearDownLeak(title, cause) ==
    /\ emitted' = IF ~connection_lost_notified THEN <<title>> ELSE <<>>
    /\ notified' = Record(emitted')
    /\ connection_lost_notified' = TRUE
    /\ ais_sock' = NoSock
    /\ pc' = "outer"
    /\ ev' = cause
    /\ datagrams' = <<>>
    /\ sent' = <<>>
    /\ stream' = <<>>
    /\ extracted' = <<>>
    /\ reads' = 0
    /\ unread' = <<>>
    /\ arrived' = <<>>
    /\ probes' = 0
    /\ logged' = <<TeardownLog(cause)>>
    /\ dropped' = <<>>
    /\ slept' = slept
    /\ created' = <<>>
    /\ closed' = <<>>
    /\ delivery' \in Deliveries(emitted')
    /\ sinceCheck' = 0
    /\ sinceProbe' = 0
    /\ UNCHANGED <<was_connected, leftover, openFds>>
    /\ UNCHANGED <<timed, cfgVars>>

\* TearDown setting connection_lost_notified only when the notification was delivered
\* to the system log, so that an undelivered one is sent again
TearDownRetriesDelivery(title, cause) ==
    /\ emitted' = IF ~connection_lost_notified THEN <<title>> ELSE <<>>
    /\ notified' = Record(emitted')
    /\ delivery' \in Deliveries(emitted')
    /\ connection_lost_notified' =
           (connection_lost_notified \/ delivery'[1].syslog = "ok")
    /\ openFds' = openFds \ {ais_sock}
    /\ ais_sock' = NoSock
    /\ pc' = "outer"
    /\ ev' = cause
    /\ datagrams' = <<>>
    /\ sent' = <<>>
    /\ stream' = <<>>
    /\ extracted' = <<>>
    /\ reads' = 0
    /\ unread' = <<>>
    /\ arrived' = <<>>
    /\ probes' = 0
    /\ logged' = <<TeardownLog(cause)>>
    /\ dropped' = <<>>
    /\ slept' = slept
    /\ created' = <<>>
    /\ closed' = <<ais_sock>>
    /\ sinceCheck' = 0
    /\ sinceProbe' = 0
    /\ UNCHANGED <<was_connected, leftover>>
    /\ UNCHANGED <<timed, cfgVars>>

\* TearDown with the setting of connection_lost_notified (lines 451, 481, 505, 522)
\* left out
TearDownUnflagged(title, cause) ==
    /\ emitted' = IF ~connection_lost_notified THEN <<title>> ELSE <<>>
    /\ notified' = Record(emitted')
    /\ connection_lost_notified' = connection_lost_notified
    /\ openFds' = openFds \ {ais_sock}
    /\ ais_sock' = NoSock
    /\ pc' = "outer"
    /\ ev' = cause
    /\ datagrams' = <<>>
    /\ sent' = <<>>
    /\ stream' = <<>>
    /\ extracted' = <<>>
    /\ reads' = 0
    /\ unread' = <<>>
    /\ arrived' = <<>>
    /\ probes' = 0
    /\ logged' = <<TeardownLog(cause)>>
    /\ dropped' = <<>>
    /\ slept' = slept
    /\ created' = <<>>
    /\ closed' = <<ais_sock>>
    /\ delivery' \in Deliveries(emitted')
    /\ sinceCheck' = 0
    /\ sinceProbe' = 0
    /\ UNCHANGED <<was_connected, leftover>>
    /\ UNCHANGED <<timed, cfgVars>>

\* the common tail of the four failure branches (443-456, 473-486, 497-510, 514-527):
\* closing the socket discards what its receive queue holds, and the break ends the
\* scope of last_health_check (line 435)
TearDown(title, cause) ==
    /\ emitted' = IF ~connection_lost_notified THEN <<title>> ELSE <<>>
    /\ notified' = Record(emitted')
    /\ connection_lost_notified' = TRUE
    /\ openFds' = openFds \ {ais_sock}
    /\ ais_sock' = NoSock
    /\ pc' = "outer"
    /\ ev' = cause
    /\ datagrams' = <<>>
    /\ sent' = <<>>
    /\ stream' = <<>>
    /\ extracted' = <<>>
    /\ reads' = 0
    /\ unread' = <<>>
    /\ arrived' = <<>>
    /\ probes' = 0
    /\ logged' = <<TeardownLog(cause)>>
    /\ dropped' = <<>>
    /\ slept' = slept
    /\ created' = <<>>
    /\ closed' = <<ais_sock>>
    /\ delivery' \in Deliveries(emitted')
    /\ sinceCheck' = 0
    /\ sinceProbe' = 0
    /\ UNCHANGED <<was_connected, leftover>>
    /\ UNCHANGED <<timed, cfgVars>>

\* the test of line 441 made against twice the interval
HealthCheckDueLate == sinceCheck >= HealthCheckInterval + HealthCheckInterval

\* the test of line 441 made against the timeout of select
HealthCheckDueEarly == sinceCheck >= SelectTimeout

\* the test of line 441
HealthCheckDue == sinceCheck >= HealthCheckInterval

\* lines 439-459 when the health check is not due
HealthCheckSkipped ==
    /\ pc = "check"
    /\ ais_sock # NoSock
    /\ ~HealthCheckDue
    /\ pc' = "select"
    /\ ev' = "check_skipped"
    /\ emitted' = <<>>
    /\ datagrams' = <<>>
    /\ probed' = NoProbe
    /\ logged' = <<>>
    /\ dropped' = <<>>
    /\ slept' = slept
    /\ created' = <<>>
    /\ closed' = <<>>
    /\ delivery' = <<>>
    /\ UNCHANGED <<ais_sock, was_connected, connection_lost_notified, leftover,
                   sinceCheck, openFds, notified, sent, stream, extracted, reads,
                   unread, arrived, sinceProbe, probes>>
    /\ UNCHANGED <<timed, cfgVars>>

\* what the peek of line 201 can return with the given bytes in the receive queue: a
\* byte when there is one, otherwise 0 or an error
PeekPossible(queue, peekRes) == (peekRes > 0) <=> (queue # <<>>)

\* the receive queue after a recv without MSG_PEEK that returned peekRes bytes
AfterRecv(queue, peekRes) ==
    IF peekRes > 0 THEN SubSeq(queue, peekRes + 1, Len(queue)) ELSE queue

\* the receive queue after the recv of line 201 returned peekRes: with MSG_PEEK the
\* byte it read stays in the queue
AfterPeek(queue, peekRes) == queue

\* lines 439-459 when the health check is due, for one outcome of the probe's calls
HealthCheck(sendRes, sendErrno, gsRet, soError, peekRes, peekErrno) ==
    /\ pc = "check"
    /\ ais_sock # NoSock
    /\ HealthCheckDue
    /\ probed' = ProbeCalls(<<sendRes, sendErrno>>, <<gsRet, soError>>,
                            <<peekRes, peekErrno>>)
    /\ probed'.calls = 3 => PeekPossible(unread, peekRes)
    /\ IF IsConnectionAlive(sendRes, sendErrno, gsRet, soError, peekRes, peekErrno)
       THEN /\ sinceCheck' = 0
            /\ sinceProbe' = 0
            /\ probes' = IF timed /\ probes < MaxProbes THEN probes + 1 ELSE probes
            /\ unread' = AfterPeek(unread, peekRes)
            /\ pc' = "select"
            /\ ev' = "probe_alive"
            /\ emitted' = <<>>
            /\ datagrams' = <<>>
            /\ logged' = <<>>
            /\ dropped' = <<>>
            /\ slept' = slept
            /\ created' = <<>>
            /\ closed' = <<>>
            /\ delivery' = <<>>
            /\ UNCHANGED <<ais_sock, was_connected, connection_lost_notified, leftover,
                           openFds, notified, sent, stream, extracted, reads, arrived,
                           timed, cfgVars>>
       ELSE TearDown(LostTitle, "probe_dead")

\* lines 470-486: select returned a negative value
SelectError ==
    /\ pc = "select"
    /\ probed' = NoProbe
    /\ TearDown(ErrorTitle, "select_error")

\* SelectTimedOut taking the expiry of the timeout for a failure
SelectTimedOutFails ==
    /\ pc = "select"
    /\ unread = <<>>
    /\ probed' = NoProbe
    /\ TearDown(ErrorTitle, "select_timeout")

\* lines 487-490: select returned 0 after its whole timeout, the receive queue being
\* empty all the while
SelectTimedOut ==
    /\ pc = "select"
    /\ unread = <<>>
    /\ sinceCheck' = sinceCheck + SelectTimeout
    /\ sinceProbe' = sinceProbe + SelectTimeout
    /\ pc' = "check"
    /\ ev' = "select_timeout"
    /\ emitted' = <<>>
    /\ datagrams' = <<>>
    /\ probed' = NoProbe
    /\ logged' = <<>>
    /\ dropped' = <<>>
    /\ slept' = slept
    /\ created' = <<>>
    /\ closed' = <<>>
    /\ delivery' = <<>>
    /\ UNCHANGED <<ais_sock, was_connected, connection_lost_notified, leftover,
                   openFds, notified, sent, stream, extracted, reads,
                   unread, arrived, probes>>
    /\ UNCHANGED <<timed, cfgVars>>

\* line 470: select reported the socket readable after waited seconds (it holds data,
\* or the end of the stream, or an error)
SelectReady(waited) ==
    /\ pc = "select"
    /\ sinceCheck' = sinceCheck + waited
    /\ sinceProbe' = sinceProbe + waited
    /\ pc' = "recv"
    /\ ev' = "select_ready"
    /\ emitted' = <<>>
    /\ datagrams' = <<>>
    /\ probed' = NoProbe
    /\ logged' = <<>>
    /\ dropped' = <<>>
    /\ slept' = slept
    /\ created' = <<>>
    /\ closed' = <<>>
    /\ delivery' = <<>>
    /\ UNCHANGED <<ais_sock, was_connected, connection_lost_notified, leftover,
                   openFds, notified, sent, stream, extracted, reads,
                   unread, arrived, probes>>
    /\ UNCHANGED <<timed, cfgVars>>

\* lines 496-511: recv returned a negative value
RecvError ==
    /\ pc = "recv"
    /\ probed' = NoProbe
    /\ TearDown(LostTitle, "recv_error")

\* lines 513-528: recv returned 0, which it does when the receive queue is empty and
\* the peer has closed
RecvClosed ==
    /\ pc = "recv"
    /\ unread = <<>>
    /\ probed' = NoProbe
    /\ TearDown(ClosedTitle, "recv_closed")

\* line 494: the bytes recv returns, at most sizeof(buffer) - 1 of those in the queue
Received(queue) ==
    SubSeq(queue, 1, IF Len(queue) <= RecvMax THEN Len(queue) ELSE RecvMax)

\* lines 494, 530-549: recv returned bytes
RecvData ==
    /\ pc = "recv"
    /\ unread # <<>>
    /\ LET chunk == Received(unread)
           r == ProcessLeftover(AppendReceived(leftover, chunk))
       IN /\ leftover' = r.rest
          /\ datagrams' = r.out
          /\ sent' = sent \o r.out
          /\ extracted' = extracted \o r.lines
          /\ stream' = stream \o chunk
          /\ unread' = SubSeq(unread, Len(chunk) + 1, Len(unread))
    /\ reads' = reads + 1
    /\ pc' = "check"
    /\ ev' = "recv_data"
    /\ emitted' = <<>>
    /\ probed' = NoProbe
    /\ logged' = <<>>
    /\ dropped' = <<>>
    /\ slept' = slept
    /\ created' = <<>>
    /\ closed' = <<>>
    /\ delivery' = <<>>
    /\ UNCHANGED <<ais_sock, was_connected, connection_lost_notified, sinceCheck,
                   openFds, notified, arrived, sinceProbe, probes>>
    /\ UNCHANGED <<timed, cfgVars>>

\* the peer's bytes reach the receive queue of the connection
Arrive(chunk) ==
    /\ pc \in {"check", "select"}
    /\ ais_sock # NoSock
    /\ unread = <<>>
    /\ Len(chunk) >= 1
    /\ Len(arrived) + Len(chunk) <= MaxStream
    /\ reads < MaxReads
    /\ unread' = chunk
    /\ arrived' = arrived \o chunk
    /\ ev' = "data_arrived"
    /\ emitted' = <<>>
    /\ datagrams' = <<>>
    /\ probed' = NoProbe
    /\ logged' = <<>>
    /\ dropped' = <<>>
    /\ slept' = slept
    /\ created' = <<>>
    /\ closed' = <<>>
    /\ delivery' = <<>>
    /\ UNCHANGED <<pc, ais_sock, was_connected, connection_lost_notified, leftover,
                   sinceCheck, openFds, notified, sent, stream, extracted, reads,
                   sinceProbe, probes>>
    /\ UNCHANGED <<timed, cfgVars>>

----------------------------------------------------------------------------
(* The environment: what the peer sends, and how the system calls end *)

\* "!AIVDM"
ChunkMarker == AIVDM
\* "!AIVDO,\r": a line whose CR ends the read
ChunkCrLast == AIVDO \o <<44, CR>>
\* "\n"
ChunkLf == <<LF>>
\* "\r\n"
ChunkCrLf == <<CR, LF>>
\* "x!AIVDM\r\n": the marker at a later position
ChunkLate == <<120>> \o AIVDM \o <<CR, LF>>
\* "!AIVD": shorter than the marker
ChunkShort == <<33, 65, 73, 86, 68>>
\* "!aivdm\r\n": the marker in lower case
ChunkLower == <<33, 97, 105, 118, 100, 109, CR, LF>>
\* "$G\r\n!AIVDO\r\n": two lines in one read
ChunkTwo == <<36, 71, CR, LF>> \o AIVDO \o <<CR, LF>>
\* "!AIVDM\0x\r\n": a line holding a zero byte
ChunkNul == AIVDM \o <<NUL, 120, CR, LF>>
\* "\r"
ChunkCr == <<CR>>

Chunks == {ChunkMarker, ChunkCrLast, ChunkLf, ChunkCrLf, ChunkLate, ChunkShort,
           ChunkLower, ChunkTwo, ChunkNul, ChunkCr}

RetryChunks == {ChunkMarker, ChunkCrLf}

\* the peer's data is drawn from Chunks on the connection of a run that connected at
\* its first attempt, and from RetryChunks on every other connection
Menu == IF notified = <<StartedTitle>> THEN Chunks ELSE RetryChunks

\* the arguments given with the options: "C" for the texts, "1" and "x" for the
\* ports, "f" for the file of --config
OptionArgs(c) ==
    IF c \in {"h", "?"} THEN {<<>>}
    ELSE IF c = "c" THEN {<<102>>}
    ELSE IF c \in {"p", "t"} THEN {<<49>>, <<120>>}
    ELSE {<<67>>}

Options == {"h", "?", "c", "a", "p", "m", "t", "u"}

\* the lines a configuration file is made of
\* "ais_ip=F"
LineAisIp == <<97, 105, 115, 95, 105, 112, 61, 70>>
\* " ais_port = 3 "
LineAisPort == <<32, 97, 105, 115, 95, 112, 111, 114, 116, 32, 61, 32, 51, 32>>
\* "mt_ip=F"
LineMtIp == <<109, 116, 95, 105, 112, 61, 70>>
\* "mt_port=3"
LineMtPort == <<109, 116, 95, 112, 111, 114, 116, 61, 51>>
\* "notification_user=F"
LineUser == <<110, 111, 116, 105, 102, 105, 99, 97, 116, 105, 111, 110, 95, 117, 115, 101, 114, 61, 70>>
\* "#ais_ip=F"
LineComment == <<35, 97, 105, 115, 95, 105, 112, 61, 70>>
\* "ais_ip"
LineNoEquals == <<97, 105, 115, 95, 105, 112>>
\* "mt_port="
LineEmptyPort == <<109, 116, 95, 112, 111, 114, 116, 61>>

FileLines == {LineAisIp, LineAisPort, LineMtIp, LineMtPort, LineUser, LineComment,
              LineNoEquals, LineEmptyPort}

RECURSIVE SeqsUpTo(_, _)
SeqsUpTo(S, n) ==
    IF n = 0 THEN {<<>>}
    ELSE SeqsUpTo(S, n - 1) \cup
         {Append(q, x) : q \in {r \in SeqsUpTo(S, n - 1) : Len(r) = n - 1}, x \in S}

FileContents == SeqsUpTo(FileLines, MaxFileLines)

\* the file systems: the file of --config, when one is named, exists or not; without
\* --config, /etc/ais_forwarder.conf and ./ais_forwarder.conf exist or not
FileSystems ==
    {[custom |-> c, etc |-> Missing, cwd |-> Missing] : c \in FileContents \cup {Missing}}
    \cup {[custom |-> Missing, etc |-> e, cwd |-> Missing] : e \in FileContents}
    \cup {[custom |-> Missing, etc |-> Missing, cwd |-> w] : w \in FileContents}

\* the text of an environment variable: "E", and for the ports "2" or " 2z"
EnvTexts(p) == IF p \in PortParams THEN {<<50>>, <<32, 50, 122>>} ELSE {<<69>>}

Environments ==
    {env \in [Params -> {NoText, <<69>>, <<50>>, <<32, 50, 122>>}] :
        /\ \A p \in Params : env[p] # NoText => env[p] \in EnvTexts(p)
        /\ Cardinality({p \in Params : env[p] # NoText}) <= MaxEnv}

ConfigNext ==
    \/ \E c \in Options : \E text \in OptionArgs(c) : ParseOption(c, text)
    \/ OptionsDone
    \/ \E files \in FileSystems : LoadFiles(files)
    \/ \E env \in Environments : LoadEnv(env)

\* main() from its entry to the print of the configuration (lines 303-378)
ConfigSpec == ConfigInit /\ [][ConfigNext]_vars

\* <<result, errno>> of the zero-length send of line 182
SendOutcomes == {<<0, "none">>} \cup {<<-1, e>> : e \in Errnos}
\* <<return value, SO_ERROR>> of the getsockopt of line 193; 104 is ECONNRESET
GetsockoptOutcomes == {<<0, 0>>, <<0, 104>>, <<-1, 0>>}
\* <<result, errno>> of the peek of line 201
PeekOutcomes == {<<1, "none">>, <<0, "none">>} \cup {<<-1, e>> : e \in Errnos}

\* the runs of is_connection_alive: what its calls return, a call that is not made
\* (see ProbeCalls) returning nothing but success
ProbeRuns ==
    {run \in SendOutcomes \X GetsockoptOutcomes \X PeekOutcomes :
        /\ ProbeCalls(run[1], run[2], run[3]).calls < 2 => run[2] = <<0, 0>>
        /\ ProbeCalls(run[1], run[2], run[3]).calls < 3 => run[3] = <<1, "none">>}

ConnectFailureCauses == {"socket_failed", "connect_failed", "timeout_failed"}

Next ==
    \/ ConnectSucceeded
    \/ \E cause \in ConnectFailureCauses : ConnectFailed(cause)
    \/ Sleep
    \/ HealthCheckSkipped
    \/ \E run \in ProbeRuns :
          HealthCheck(run[1][1], run[1][2], run[2][1], run[2][2], run[3][1], run[3][2])
    \/ SelectError
    \/ SelectTimedOut
    \/ \E waited \in 0..SelectTimeout : SelectReady(waited)
    \/ RecvError
    \/ RecvClosed
    \/ RecvData
    \/ \E chunk \in Menu : Arrive(chunk)

Spec == Init /\ [][Next]_vars

\* what the peer sends where only the progress of the supervisor is looked at
LiveChunks == {ChunkCrLf}

\* the runs of the probe there: the peek finds a byte, no data, or the stream closed
LiveProbeRuns ==
    {run \in ProbeRuns :
        /\ run[1] = <<0, "none">>
        /\ run[2] = <<0, 0>>
        /\ run[3] \in {<<1, "none">>, <<-1, "EAGAIN">>, <<0, "none">>}}

\* the supervisor with the peer's data drawn from LiveChunks on every connection,
\* with a select that reports the socket readable at once or at the end of its
\* timeout, and with the probe's runs drawn from LiveProbeRuns
LiveNext ==
    \/ ConnectSucceeded
    \/ \E cause \in ConnectFailureCauses : ConnectFailed(cause)
    \/ Sleep
    \/ HealthCheckSkipped
    \/ \E run \in LiveProbeRuns :
          HealthCheck(run[1][1], run[1][2], run[2][1], run[2][2], run[3][1], run[3][2])
    \/ SelectError
    \/ SelectTimedOut
    \/ \E waited \in {0, SelectTimeout} : SelectReady(waited)
    \/ RecvError
    \/ RecvClosed
    \/ RecvData
    \/ \E chunk \in LiveChunks : Arrive(chunk)

\* main() is one thread that never waits without a bound (sleep(10), select with a
\* 2 s timeout, recv after select, connect under the system's connect timeout): it
\* keeps taking steps.  Strong fairness of ConnectSucceeded is the hypothesis that
\* connect attempts, made again and again, eventually succeed.
LiveSpec == Init /\ [][LiveNext]_vars /\ WF_vars(LiveNext) /\ SF_vars(ConnectSucceeded)

\* the notification logic as a function of its two flags, whatever their values when
\* the loop is entered
BranchSpec == BranchInit /\ [][LiveNext]_vars

\* the supervisor where its clock is looked at: the probes of a connection are
\* counted, select reports the socket readable after any part of its timeout, the
\* probe's calls return anything they can, the peer's data is drawn from LiveChunks
TimedNext ==
    \/ ConnectSucceeded
    \/ \E cause \in ConnectFailureCauses : ConnectFailed(cause)
    \/ Sleep
    \/ HealthCheckSkipped
    \/ \E run \in ProbeRuns :
          HealthCheck(run[1][1], run[1][2], run[2][1], run[2][2], run[3][1], run[3][2])
    \/ SelectError
    \/ SelectTimedOut
    \/ \E waited \in 0..SelectTimeout : SelectReady(waited)
    \/ RecvError
    \/ RecvClosed
    \/ RecvData
    \/ \E chunk \in LiveChunks : Arrive(chunk)

TimedSpec == TimedInit /\ [][TimedNext]_vars

----------------------------------------------------------------------------
(* Notions the properties are stated in *)

Connected == ais_sock # NoSock

\* the notifications of a successful connect
ConnectTitles == {StartedTitle, RestoredTitle}
\* the notifications of a lost or failed connection
LossTitles == {LostTitle, ErrorTitle, ClosedTitle, FailedTitle}

\* what the steps observe when a connect attempt is made
AttemptEvents == {"connect_ok"} \cup ConnectFailureCauses
\* the four triggers of a teardown
TeardownEvents == {"probe_dead", "select_error", "recv_closed", "recv_error"}

TitleCount(titles, t) == Cardinality({i \in 1..Len(titles) : titles[i] = t})
Titles(titles) == {titles[i] : i \in 1..Len(titles)}

\* a step that makes a connect attempt, one that fails, one that succeeds
AttemptStep == pc = "outer" /\ ev' \in AttemptEvents
FailedAttemptStep == pc = "outer" /\ ~Connected'
ConnectStep == ~Connected /\ Connected'
TeardownStep == Connected /\ ~Connected'

----------------------------------------------------------------------------
(* C1 *)

\* C1: the emitted notifications strictly alternate: between two consecutive connect
\* notifications (Started, Restored) there is at most one loss-class notification,
\* between two consecutive loss-class notifications there is a Restored, and no
\* notification is repeated within one episode (two equal notifications are
\* separated by a notification of a change of connection state).
C1_StrictAlternation ==
    /\ \A i, j \in 1..Len(notified) :
         ( /\ i < j
           /\ notified[i] \in ConnectTitles
           /\ notified[j] \in ConnectTitles
           /\ \A k \in (i + 1)..(j - 1) : notified[k] \notin ConnectTitles )
         => Cardinality({k \in (i + 1)..(j - 1) : notified[k] \in LossTitles}) <= 1
    /\ \A i, j \in 1..Len(notified) :
         ( /\ i < j
           /\ notified[i] \in LossTitles
           /\ notified[j] \in LossTitles )
         => \E k \in (i + 1)..(j - 1) : notified[k] = RestoredTitle
    /\ \A i, j \in 1..Len(notified) :
         (i < j /\ notified[i] = notified[j])
         => \E k \in (i + 1)..(j - 1) : notified[k] \in ConnectTitles \cup LossTitles

\* the part of C1 about the connect and loss-class notifications alone
ConnectLossAlternation ==
    LET marks == SelectSeq(notified, LAMBDA t : t \in ConnectTitles \cup LossTitles)
    IN \A i \in 1..Len(marks) :
         /\ (i = 1) => marks[i] = StartedTitle
         /\ (i > 1 /\ marks[i - 1] \in ConnectTitles) => marks[i] \in LossTitles
         /\ (i > 1 /\ marks[i - 1] \in LossTitles) => marks[i] = RestoredTitle

----------------------------------------------------------------------------
(* C2 *)

\* C2: Started is emitted at most once, exactly at the first-ever successful connect,
\* also when failed connect attempts came before it (which emit nothing); every later
\* successful connect emits Restored and never Started.
C2_StartedAtFirstConnect ==
    [][ /\ TitleCount(notified', StartedTitle) <= 1
        /\ ~was_connected => (~Connected /\ Titles(notified) \cap ConnectTitles = {})
        /\ was_connected => was_connected'
        /\ ConnectStep =>
             /\ was_connected'
             /\ emitted' = IF was_connected THEN <<RestoredTitle>> ELSE <<StartedTitle>>
        /\ ~ConnectStep => Titles(emitted') \cap ConnectTitles = {}
        /\ (FailedAttemptStep /\ ~was_connected) => emitted' = <<>>
      ]_vars

\* the part of C2 about Started and Restored alone: the failed attempts before the
\* first connect change no flag and emit no connect or loss-class notification
StartedOnlyAtFirstConnect ==
    [][ /\ TitleCount(notified', StartedTitle) <= 1
        /\ ~was_connected => (~Connected /\ Titles(notified) \cap ConnectTitles = {})
        /\ was_connected => was_connected'
        /\ ConnectStep =>
             /\ was_connected'
             /\ emitted' = IF was_connected THEN <<RestoredTitle>> ELSE <<StartedTitle>>
        /\ ~ConnectStep => Titles(emitted') \cap ConnectTitles = {}
        /\ (FailedAttemptStep /\ ~was_connected) =>
             /\ Titles(emitted') \cap (ConnectTitles \cup LossTitles) = {}
             /\ UNCHANGED <<was_connected, connection_lost_notified>>
      ]_vars

----------------------------------------------------------------------------
(* C3 *)

\* C3: every CONNECTED to DISCONNECTED transition emits exactly one loss-class
\* notification, no further one is emitted while DISCONNECTED, and the successful
\* connect that ends the episode emits exactly one Restored, in every episode.
C3_EveryEpisodeNotified ==
    [][ /\ TeardownStep =>
             /\ Len(emitted') = 1
             /\ emitted'[1] \in LossTitles
        /\ (~Connected /\ ~Connected') => Titles(emitted') \cap LossTitles = {}
        /\ (ConnectStep /\ was_connected) => emitted' = <<RestoredTitle>>
      ]_vars

\* the second episode has ended with its own Lost and Restored
C3_Witness ==
    /\ ev = "connect_ok"
    /\ notified = <<StartedTitle, LostTitle, RestoredTitle, ClosedTitle, RestoredTitle>>

----------------------------------------------------------------------------
(* C4 *)

\* C4: while DISCONNECTED with connection_lost_notified set, a failed connect attempt
\* emits no notification of any kind, whatever made it fail.
C4_SilentRetries ==
    [][ (FailedAttemptStep /\ ~Connected /\ connection_lost_notified)
        => emitted' = <<>> ]_vars

----------------------------------------------------------------------------
(* C5 *)

\* C5: while CONNECTED each of the four triggers closes the connection, sets
\* ais_sock to -1 and leaves the monitoring loop in the same step, so that the next
\* step is a connect attempt; nothing else takes the supervisor from CONNECTED to
\* DISCONNECTED.
C5_TeardownTriggers ==
    [][ /\ (Connected /\ ev' \in TeardownEvents) =>
             /\ ais_sock' = NoSock
             /\ ais_sock \notin openFds'
             /\ pc' = "outer"
        /\ TeardownStep => ev' \in TeardownEvents
        /\ (pc = "outer") => (~Connected /\ ev' \in AttemptEvents)
        /\ (Connected /\ ev' \notin TeardownEvents) =>
             /\ ais_sock' = ais_sock
             /\ openFds' = openFds
             /\ pc' \in {"check", "select", "recv"}
      ]_vars

\* a select error has just torn the connection down
C5_Witness ==
    /\ ev = "select_error"
    /\ pc = "outer"
    /\ ais_sock = NoSock
    /\ openFds = {MtSock}

----------------------------------------------------------------------------
(* C6 *)

\* the positions of a stream at which a CR is followed by an LF
DelimitersOf(s) == {i \in 1..(Len(s) - 1) : s[i] = CR /\ s[i + 1] = LF}

\* the whole stream split at every CRLF: its complete lines, in order
SplitAtCrLf(s) ==
    LET D == DelimitersOf(s)
        nth(k) == CHOOSE d \in D : Cardinality({e \in D : e < d}) = k - 1
        from(k) == IF k = 1 THEN 1 ELSE nth(k - 1) + 2
    IN [k \in 1..Cardinality(D) |-> SubSeq(s, from(k), nth(k) - 1)]

\* the bytes of the stream after its last CRLF
AfterLastCrLf(s) ==
    LET D == DelimitersOf(s)
    IN IF D = {} THEN s
       ELSE SubSeq(s, (CHOOSE d \in D : \A e \in D : e <= d) + 2, Len(s))

HasNul(s) == \E i \in 1..Len(s) : s[i] = NUL

\* C6: on one connection, whatever the bytes received and however they were split
\* into reads, the lines the framing code extracted are the lines of the whole
\* stream split at every CRLF.
C6_ChunkingInvariance ==
    Connected => extracted = SplitAtCrLf(stream)

\* C6 for the streams that hold no zero byte
ChunkingInvarianceWithoutNul ==
    (Connected /\ ~HasNul(stream)) =>
        /\ extracted = SplitAtCrLf(stream)
        /\ leftover = AfterLastCrLf(stream)

----------------------------------------------------------------------------
(* C7 *)

\* the line begins, at position zero, with exactly "!AIVDM" or "!AIVDO"
BeginsWithMarker(line) ==
    /\ Len(line) >= 6
    /\ [i \in 1..6 |-> line[i]] \in {AIVDM, AIVDO}

\* the lines a step extracted
NewLines == SubSeq(extracted', Len(extracted) + 1, Len(extracted'))

\* C7: an extracted line is forwarded if and only if it begins with "!AIVDM" or
\* "!AIVDO"; every other line is dropped, with no datagram, no notification and no
\* change of the connection state or of the notification flags.
C7_ForwardedIffMarker ==
    [][ (ev' = "recv_data") =>
          /\ \A i \in 1..Len(NewLines) :
               BeginsWithMarker(NewLines[i])
                 <=> (\E j \in 1..Len(datagrams') : datagrams'[j] = NewLines[i])
          /\ (\A i \in 1..Len(NewLines) : ~BeginsWithMarker(NewLines[i]))
               => datagrams' = <<>>
          /\ emitted' = <<>>
          /\ UNCHANGED <<ais_sock, openFds, was_connected, connection_lost_notified,
                         notified>>
      ]_vars

\* a line beginning with the marker was forwarded; a line of another kind, a line
\* with the marker at a later position and the empty line were dropped
C7_Witness ==
    /\ ev = "recv_data"
    /\ extracted = << <<36, 71>>, AIVDO, <<120>> \o AIVDM, <<>> >>
    /\ sent = << AIVDO >>

----------------------------------------------------------------------------
(* C8 *)

----------------------------------------------------------------------------
(* C10 *)

\* the events after which the supervisor is DISCONNECTED
FailureEvents == ConnectFailureCauses \cup TeardownEvents

\* C10: the main loop has no terminal state: after every failure the supervisor is
\* in the loop and can take a step, whenever it is DISCONNECTED it eventually makes
\* another connect attempt, and, connect attempts eventually succeeding, it
\* eventually is CONNECTED again.
C10_NoTerminalState ==
    /\ [](pc \in {"outer", "sleep", "check", "select", "recv"})
    /\ [](ev \in FailureEvents => (~Connected /\ pc \in {"outer", "sleep"}))
    /\ [](ENABLED <<LiveNext>>_vars)
    /\ (pc = "sleep") ~> (pc = "outer")
    /\ (pc = "outer") ~> (ev \in AttemptEvents /\ pc \in {"sleep", "check"})
    /\ (~Connected) ~> Connected

\* the supervisor is CONNECTED again after a loss and a failed connect attempt
C10_Witness ==
    /\ Connected
    /\ notified = <<StartedTitle, LostTitle, SocketErrorTitle, RestoredTitle>>

----------------------------------------------------------------------------
(* C9 *)

\* the value a text gives to a parameter
ValueOf(p, text) == IF p \in PortParams THEN Stoi(text).value ELSE text

Last(S) == CHOOSE i \in S : \A j \in S : j <= i

\* what the command line, the environment and the configuration file give to p
CmdGives(p) == {i \in 1..Len(cmdline) :
                   cmdline[i][1] \in {"a", "p", "m", "t", "u"}
                   /\ ParamOfOption(cmdline[i][1]) = p}
EnvGives(p) == environ[p] # NoText
FileGives(p) == {i \in 1..Len(loaded.lines) :
                    ParseLine(loaded.lines[i]).entry
                    /\ ParamOfKey(ParseLine(loaded.lines[i]).key) = p}

\* the priority of the documentation: command line, environment, file, default
DocumentedValue(p) ==
    IF CmdGives(p) # {} THEN ValueOf(p, cmdline[Last(CmdGives(p))][2])
    ELSE IF EnvGives(p) THEN ValueOf(p, environ[p])
    ELSE IF FileGives(p) # {}
         THEN ValueOf(p, ParseLine(loaded.lines[Last(FileGives(p))]).value)
    ELSE DefaultConfig[p]

\* C9: each parameter the core runs with has the value given on the command line if
\* there is one, otherwise that of the environment variable if set, otherwise that
\* of the configuration file if it has the entry, otherwise the default.
C9_ConfigPriority ==
    (pc = "configured") => \A p \in Params : config[p] = DocumentedValue(p)

\* the priority main() implements: environment, file, command line, default
ImplementedValue(p) ==
    IF EnvGives(p) THEN ValueOf(p, environ[p])
    ELSE IF FileGives(p) # {}
         THEN ValueOf(p, ParseLine(loaded.lines[Last(FileGives(p))]).value)
    ELSE IF CmdGives(p) # {} THEN ValueOf(p, cmdline[Last(CmdGives(p))][2])
    ELSE DefaultConfig[p]

ImplementedPriority ==
    (pc = "configured") => \A p \in Params : config[p] = ImplementedValue(p)

----------------------------------------------------------------------------
(* C11 *)

\* the last connect or loss-class notification of the history, "none" without one
LastMark ==
    LET marks == SelectSeq(notified, LAMBDA t : t \in ConnectTitles \cup LossTitles)
    IN IF marks = <<>> THEN "none" ELSE marks[Len(marks)]

\* C11: connection_lost_notified is true only while DISCONNECTED (it is false whenever
\* CONNECTED) and only after a loss-class notification of the current episode: none
\* of Started, Restored came after it; the flag becomes true only in a step that
\* emits a loss-class notification, and the only step that takes it from true to
\* false is a successful connect.
C11_LossNotifiedOnlyDisconnected ==
    /\ [](connection_lost_notified =>
            /\ ~Connected
            /\ Len(notified) < MaxNotes => LastMark \in LossTitles)
    /\ [][ /\ (~connection_lost_notified /\ connection_lost_notified') =>
                /\ ~Connected'
                /\ Titles(emitted') \cap LossTitles # {}
           /\ (connection_lost_notified /\ ~connection_lost_notified') =>
                /\ ConnectStep
                /\ ev' = "connect_ok"
         ]_vars

\* the flag set by a teardown has stayed set over a failed connect attempt
C11_Witness ==
    /\ connection_lost_notified
    /\ ~Connected
    /\ ev = "connect_failed"
    /\ notified = <<StartedTitle, ClosedTitle>>

----------------------------------------------------------------------------
(* C12 *)

\* C12: while CONNECTED, between two steps (the extraction loop of a read has
\* finished, the supervisor is about to wait for or read more data), leftover holds
\* no CRLF, and it is exactly the bytes received on the current connection after
\* their last CRLF.
C12_PendingAfterLastCrLf ==
    Connected =>
        /\ Find(leftover, delimiter) = npos
        /\ leftover = AfterLastCrLf(stream)

\* the first part of C12: no CRLF is left in leftover, whatever was received
PendingWithoutDelimiter ==
    Connected => Find(leftover, delimiter) = npos

----------------------------------------------------------------------------
(* C13 *)

\* the lines, each followed by the delimiter it was cut at
RECURSIVE Framed(_)
Framed(lines) ==
    IF lines = <<>> THEN <<>> ELSE lines[1] \o delimiter \o Framed(Tail(lines))

\* the bytes of a are bytes of b, in b's order (b with bytes left out)
RECURSIVE Embeds(_, _)
Embeds(a, b) ==
    IF a = <<>> THEN TRUE
    ELSE IF b = <<>> THEN FALSE
    ELSE IF a[1] = b[1] THEN Embeds(Tail(a), Tail(b))
    ELSE Embeds(a, Tail(b))

\* C13: every successful connect leaves leftover empty, whatever was pending when the
\* last connection was torn down; so the lines extracted on a connection, the pending
\* bytes and every datagram sent are made of bytes received on that connection only
\* (they are all of them, in order, when no zero byte was received).
C13_PendingEmptyAtConnect ==
    /\ [][ConnectStep => (leftover' = <<>> /\ extracted' = <<>> /\ sent' = <<>>)]_vars
    /\ [](Connected =>
            /\ Embeds(Framed(extracted) \o leftover, stream)
            /\ ~HasNul(stream) => Framed(extracted) \o leftover = stream
            /\ \A i \in 1..Len(sent) : Embeds(sent[i] \o delimiter, stream))

\* a reconnect has just discarded the partial line "!AIVDM" that was pending when the
\* first connection was closed
C13_Witness ==
    /\ ev = "connect_ok"
    /\ notified = <<StartedTitle, ClosedTitle, RestoredTitle>>
    /\ dropped = AIVDM
    /\ leftover = <<>>

----------------------------------------------------------------------------
(* C14 *)

\* the step ran is_connection_alive
ProbeStep == probed'.calls > 0

\* C14: a probe takes nothing from the socket's receive queue and changes no framing
\* state: a probe that finds the connection alive leaves the unread bytes, leftover
\* and the lines extracted and sent as they were and sends nothing, and no probe
\* changes leftover; so, with or without probes between the reads, the bytes read on
\* a connection followed by the bytes still unread are the bytes that arrived on it.
C14_ProbeConsumesNothing ==
    /\ [][ /\ (ProbeStep /\ Connected') =>
                /\ unread' = unread
                /\ UNCHANGED <<leftover, stream, extracted, sent, reads>>
                /\ datagrams' = <<>>
           /\ ProbeStep => leftover' = leftover
         ]_vars
    /\ [](Connected => stream \o unread = arrived)

\* a probe has peeked at a byte of the receive queue, a partial line being pending
C14_Witness ==
    /\ ev = "probe_alive"
    /\ probed.peek = "data"
    /\ unread = ChunkCrLf
    /\ leftover = AIVDM

----------------------------------------------------------------------------
(* C15 *)

\* the probe reported the connection alive: the monitoring loop goes on
ReportedHealthy == ProbeStep /\ ev' = "probe_alive"
\* the probe reported it dead
ReportedUnhealthy == ProbeStep /\ ev' = "probe_dead"

\* C15: the probe reports healthy when its peek finds data or no data available, and
\* unhealthy whenever the peer has closed or the zero-length send, the pending-error
\* query or the peek observes an error, whatever the error code; an unhealthy report
\* always tears the connection down.
C15_ProbeOutcomes ==
    [][ /\ ProbeStep => (ReportedHealthy \/ ReportedUnhealthy)
        /\ ( /\ ProbeStep
             /\ probed'.send = "ok"
             /\ probed'.getsockopt = "ok"
             /\ probed'.peek \in {"data", "no_data"} ) => ReportedHealthy
        /\ ( /\ ProbeStep
             /\ \/ probed'.send = "error"
                \/ probed'.getsockopt = "error"
                \/ probed'.peek \in {"closed", "error"} ) => ReportedUnhealthy
        /\ ReportedUnhealthy => (TeardownStep /\ pc' = "outer")
      ]_vars

\* what of C15 the code does: healthy without an error and with data or no data,
\* unhealthy when the peer has closed or the pending-error query fails or reports an
\* error, every unhealthy report tearing the connection down; an error of the send or
\* of the peek by itself decides nothing
ProbeOutcomesWithoutErrorCodes ==
    [][ /\ ProbeStep => (ReportedHealthy \/ ReportedUnhealthy)
        /\ ( /\ ProbeStep
             /\ probed'.send = "ok"
             /\ probed'.getsockopt = "ok"
             /\ probed'.peek \in {"data", "no_data"} ) => ReportedHealthy
        /\ ( /\ ProbeStep
             /\ \/ probed'.getsockopt = "error"
                \/ probed'.peek = "closed" ) => ReportedUnhealthy
        /\ ReportedUnhealthy => (TeardownStep /\ pc' = "outer")
      ]_vars

----------------------------------------------------------------------------
(* C16 *)

\* C16: when select's timeout expires with no data the supervisor stays CONNECTED on
\* the same socket, emits no notification, sends no datagram, writes no log line,
\* leaves leftover, both flags and everything read so far unchanged, and goes back to
\* the health check; from the health check, unless the probe fails, it waits in
\* select again.
C16_SelectTimeoutKeepsConnection ==
    [][ /\ (pc = "select" /\ ev' = "select_timeout") =>
             /\ Connected'
             /\ pc' = "check"
             /\ emitted' = <<>>
             /\ datagrams' = <<>>
             /\ logged' = <<>>
             /\ UNCHANGED <<ais_sock, openFds, leftover, was_connected,
                            connection_lost_notified, notified, sent, stream,
                            extracted, unread>>
        /\ (pc = "check" /\ ev' \in {"check_skipped", "probe_alive"}) =>
             /\ pc' = "select"
             /\ UNCHANGED <<ais_sock, leftover>>
        /\ (pc = "check" /\ Connected') => ev' \in {"check_skipped", "probe_alive",
                                                    "data_arrived"}
      ]_vars

\* select has timed out while the partial line "!AIVDM" was pending
C16_Witness ==
    /\ ev = "select_timeout"
    /\ pc = "check"
    /\ Connected
    /\ leftover = AIVDM
    /\ notified = <<StartedTitle>>

----------------------------------------------------------------------------
(* C17 *)

\* C17: a probe is made only while CONNECTED, at the health check, and only when at
\* least HealthCheckInterval seconds of the steady clock (counted in whole seconds,
\* the steps between two waits taking none) have passed since the last probe of the
\* connection or, for its first probe, since the connection was established, however
\* many reads and waits came in between.
C17_ProbesAnIntervalApart ==
    [][ ProbeStep =>
          /\ Connected
          /\ pc = "check"
          /\ sinceProbe >= HealthCheckInterval
          /\ Connected' => sinceProbe' = 0
      ]_vars

\* the second probe of a connection has been made, data having been read on it
C17_Witness ==
    /\ ev = "probe_alive"
    /\ probes = 2
    /\ reads >= 1
    /\ stream # <<>>

----------------------------------------------------------------------------
(* C18 *)

\* the notification of a teardown, by its trigger
TeardownTitle(cause) ==
    IF cause = "select_error" THEN ErrorTitle
    ELSE IF cause = "recv_closed" THEN ClosedTitle
    ELSE LostTitle

\* what a step with the given event emits from the given flags, whatever became of
\* the notifications sent before
Emits(cause, everConnected, lossNotified) ==
    IF cause = "connect_ok"
    THEN <<IF everConnected THEN RestoredTitle ELSE StartedTitle>>
    ELSE IF cause \in TeardownEvents
    THEN IF lossNotified THEN <<>> ELSE <<TeardownTitle(cause)>>
    ELSE IF cause \in ConnectFailureCauses
    THEN (IF cause = "socket_failed" THEN <<SocketErrorTitle>> ELSE <<>>)
         \o (IF everConnected /\ ~lossNotified THEN <<FailedTitle>> ELSE <<>>)
    ELSE <<>>

\* C18: how the commands of send_notification ended has no influence on the
\* supervisor: in every step the notifications emitted, the two flags, the
\* connection state and the next position are given by the step's event and the
\* state before it alone, each notification emitted is handed to the two commands
\* exactly once (one delivery, with any outcome, for each title, none later for a
\* delivery that failed), and leftover and the datagrams change in no step that
\* notifies.
C18_DeliveryHasNoInfluence ==
    [][ /\ emitted' = Emits(ev', was_connected, connection_lost_notified)
        /\ Len(delivery') = Len(emitted')
        /\ was_connected' = (was_connected \/ ev' = "connect_ok")
        /\ connection_lost_notified' =
              IF ev' = "connect_ok" THEN FALSE
              ELSE IF ev' \in TeardownEvents THEN TRUE
              ELSE IF ev' \in ConnectFailureCauses /\ was_connected THEN TRUE
              ELSE connection_lost_notified
        /\ Connected' = IF ev' = "connect_ok" THEN TRUE
                        ELSE IF ev' \in TeardownEvents THEN FALSE
                        ELSE Connected
        /\ ev' \in TeardownEvents => pc' = "outer"
        /\ ev' \in ConnectFailureCauses => pc' = "sleep"
        /\ emitted' # <<>> =>
              /\ datagrams' = <<>>
              /\ leftover' = IF ev' = "connect_ok" THEN <<>> ELSE leftover
      ]_vars

\* both commands failed for the notification of a closed connection, and the
\* supervisor is at its next connect attempt with the loss marked as notified
C18_Witness ==
    /\ ev = "recv_closed"
    /\ emitted = <<ClosedTitle>>
    /\ delivery = <<[syslog |-> "failed", desktop |-> "failed"]>>
    /\ connection_lost_notified
    /\ pc = "outer"

----------------------------------------------------------------------------
(* C19 *)

\* the step wrote a line that begins with a timestamp and reports a failure (the
\* lines written at every connect attempt and at every successful one report none)
FailureLogged ==
    \E i \in 1..Len(logged') :
        /\ logged'[i].stamped
        /\ logged'[i] \notin {AttemptLog, SuccessLog}

\* C19: every failure the supervisor observes (socket creation, TCP connect and
\* timeout-configuration failures of an attempt; probe failure, select error, read
\* error and orderly close of a connection) writes a timestamped log line, whether
\* or not the step emits a notification.
C19_FailuresLogged ==
    [][ev' \in FailureEvents => FailureLogged]_vars

\* C19 for every failure but that of the TCP connect
FailuresLoggedButConnect ==
    [][(ev' \in FailureEvents /\ ev' # "connect_failed") => FailureLogged]_vars

----------------------------------------------------------------------------
(* C20 *)

\* C20: a failed connect attempt emits Failed, once, exactly when a connection was
\* established before and no loss was notified yet (was_connected and not
\* connection_lost_notified), and then sets connection_lost_notified; in every other
\* case it emits no connect or loss-class notification and leaves both flags as
\* they were.
C20_FailedOnFirstFailure ==
    [][ FailedAttemptStep =>
          IF was_connected /\ ~connection_lost_notified
          THEN /\ TitleCount(emitted', FailedTitle) = 1
               /\ connection_lost_notified'
               /\ was_connected'
          ELSE /\ Titles(emitted') \cap (ConnectTitles \cup LossTitles) = {}
               /\ UNCHANGED <<was_connected, connection_lost_notified>>
      ]_vars

\* a reconnect attempt has failed after the loss of the connection was notified: no
\* Failed is emitted, the flags are as they were
C20_Witness ==
    /\ ev = "connect_failed"
    /\ pc = "sleep"
    /\ was_connected
    /\ connection_lost_notified
    /\ emitted = <<>>
    /\ notified = <<StartedTitle, LostTitle>>

----------------------------------------------------------------------------
(* C21 *)

ConnectNotifiesFromEitherFlag ==
    [][ /\ ConnectStep =>
             emitted' = IF was_connected \/ connection_lost_notified
                        THEN <<RestoredTitle>> ELSE <<StartedTitle>>
        /\ ~ConnectStep => Titles(emitted') \cap ConnectTitles = {}
      ]_vars

----------------------------------------------------------------------------
(* C22 *)

\* C22: every failed connect attempt is followed by one sleep of RetryInterval
\* seconds and then by the next connect attempt: nothing else can happen after the
\* failure, the sleep emits nothing and changes no flag, the attempt that follows a
\* sleep is made with exactly RetryInterval seconds slept since the attempt before
\* it, however many attempts have failed (no backoff), and it is always made (no
\* limit on the attempts).
C22_FixedRetryInterval ==
    [][ /\ FailedAttemptStep =>
             /\ pc' = "sleep"
             /\ slept' = 0
        /\ (pc = "sleep") =>
             /\ ev' = "slept"
             /\ pc' = "outer"
             /\ slept' = slept + RetryInterval
             /\ emitted' = <<>>
             /\ UNCHANGED <<ais_sock, was_connected, connection_lost_notified>>
        /\ (pc = "outer" /\ ev = "slept") =>
             /\ AttemptStep
             /\ slept = RetryInterval
      ]_vars

\* the supervisor has slept after its third failed attempt in a row and is about to
\* make the next one
C22_Witness ==
    /\ pc = "outer"
    /\ ev = "slept"
    /\ slept = RetryInterval
    /\ notified = <<SocketErrorTitle, SocketErrorTitle, SocketErrorTitle>>

----------------------------------------------------------------------------
(* C23 *)

\* C23: the supervisor becomes CONNECTED only by an attempt whose TCP connect and
\* whose two timeout settings all succeeded; an attempt whose connect succeeded and
\* whose timeouts could not be set closes its socket (none stays open), leaves the
\* supervisor DISCONNECTED, emits neither Started nor Restored, and is in its
\* notifications, flags and next position what a failed TCP connect is: it is
\* followed by the sleep of the retry interval.
C23_ConnectedNeedsTimeouts ==
    [][ /\ ConnectStep => ev' = "connect_ok"
        /\ (AttemptStep /\ ev' \in {"timeout_failed", "connect_failed"}) =>
             /\ ~Connected'
             /\ ais_sock' = NoSock
             /\ openFds' = openFds
             /\ pc' = "sleep"
             /\ Titles(emitted') \cap ConnectTitles = {}
             /\ emitted' = IF was_connected /\ ~connection_lost_notified
                           THEN <<FailedTitle>> ELSE <<>>
             /\ was_connected' = was_connected
             /\ connection_lost_notified' = (connection_lost_notified \/ was_connected)
             /\ UNCHANGED <<leftover, datagrams, sent>>
      ]_vars

\* the timeouts of a new socket could not be set on a reconnect attempt: no socket
\* but the forwarding one is open, the supervisor is about to sleep
C23_Witness ==
    /\ ev = "timeout_failed"
    /\ pc = "sleep"
    /\ ais_sock = NoSock
    /\ openFds = {MtSock}
    /\ notified = <<StartedTitle, LostTitle>>
    /\ logged = <<AttemptLog, SetTimeoutLog, TimeoutsLog>>

----------------------------------------------------------------------------
(* C24 *)

\* the buffer a read was extracted from: the lines the step extracted, each with
\* its delimiter, followed by what the step left pending
BeforeExtraction == Framed(NewLines) \o leftover'

\* C24: a read of n > 0 bytes appends all n bytes, in order and whatever their
\* values, to leftover before the extraction: the buffer the lines are extracted
\* from is the leftover of before followed by exactly the bytes the read returned.
C24_ReadAppendedWhole ==
    [][ (ev' = "recv_data") =>
            BeforeExtraction = leftover \o Received(unread) ]_vars

\* C24 for the reads that return no zero byte, and what is appended otherwise: the
\* bytes before the first zero byte
ReadAppendedUpToNul ==
    [][ (ev' = "recv_data") =>
            /\ BeforeExtraction = leftover \o CString(Received(unread))
            /\ ~HasNul(Received(unread)) =>
                   BeforeExtraction = leftover \o Received(unread) ]_vars

----------------------------------------------------------------------------
(* C25 *)

\* C25: while CONNECTED no more than HealthCheckInterval + SelectTimeout seconds
\* pass between the establishment of the connection, or its last probe, and its next
\* probe, with or without data (reads and line processing taking no time): the
\* clock never passes that bound, once it has reached the interval the supervisor's
\* next step at the health check is the probe, and a probe that reports the peer
\* gone tears the connection down in the same step.
C25_ProbeWithinIntervalAndWait ==
    /\ [](Connected => sinceProbe <= HealthCheckInterval + SelectTimeout)
    /\ [][ /\ ( /\ Connected
                /\ pc = "check"
                /\ sinceProbe >= HealthCheckInterval
                /\ ev' # "data_arrived" ) => ProbeStep
           /\ (Connected /\ pc = "select" /\ Connected' /\ ev' # "data_arrived") =>
                /\ pc' \in {"check", "recv"}
                /\ sinceProbe' <= sinceProbe + SelectTimeout
           /\ (Connected /\ pc = "recv" /\ Connected') =>
                (pc' = "check" /\ sinceProbe' = sinceProbe)
           /\ (ProbeStep /\ ev' = "probe_dead") => TeardownStep
         ]_vars

\* data has been read on the connection and a full wait of select has passed since,
\* which has taken the clock past the interval: the probe is the next step
C25_Witness ==
    /\ Connected
    /\ pc = "check"
    /\ ev = "select_timeout"
    /\ sinceProbe = HealthCheckInterval + 1
    /\ stream # <<>>

----------------------------------------------------------------------------
(* C26 *)

\* C26: whenever a connect attempt is about to be made, was_connected implies
\* connection_lost_notified (every way out of CONNECTED has set the flag, and
\* nothing clears it while DISCONNECTED); so the branch of lines 422-427 is never
\* taken and "AIS Connection Failed" is emitted in no run.
C26_FailedNeverEmitted ==
    /\ []( /\ (~Connected /\ was_connected) => connection_lost_notified
           /\ (pc = "outer") => ~Connected
           /\ FailedTitle \notin Titles(emitted)
           /\ FailedTitle \notin Titles(notified) )
    /\ [][ /\ TeardownStep => connection_lost_notified'
           /\ (~Connected /\ ~Connected' /\ connection_lost_notified) =>
                connection_lost_notified'
         ]_vars

\* a second connection has been lost and a reconnect attempt has failed: the flag
\* is set at the next attempt, and no Failed was emitted
C26_Witness ==
    /\ pc = "outer"
    /\ ev = "slept"
    /\ was_connected
    /\ connection_lost_notified
    /\ notified = <<StartedTitle, LostTitle, RestoredTitle, ErrorTitle>>

----------------------------------------------------------------------------
(* C27 *)

\* the descriptors of a sequence
Descriptors(fds) == {fds[i] : i \in 1..Len(fds)}

\* what is done on the source connection: the probe, the select, the read
ConnectionEvents ==
    {"check_skipped", "probe_alive", "probe_dead", "select_timeout", "select_ready",
     "select_error", "recv_data", "recv_error", "recv_closed"}

\* C27: at most one source connection is open at any time (besides the forwarding
\* socket the open descriptors are ais_sock while CONNECTED and none otherwise);
\* every socket a connect attempt creates is either the new connection or closed in
\* the same step, a step closes only descriptors that are open and each of them
\* once, a teardown closes the connection's socket, so that no socket is closed
\* twice or left open; a connect attempt is made only with no source connection
\* open; the probe, the select and the read are made only on the open connection.
C27_OneSourceConnection ==
    /\ []( /\ openFds = IF Connected THEN {MtSock, ais_sock} ELSE {MtSock}
           /\ Connected => ais_sock # MtSock
           /\ pc \in {"check", "select", "recv"} => Connected
           /\ pc \in {"outer", "sleep"} => ~Connected )
    /\ [][ /\ AttemptStep => (~Connected /\ openFds = {MtSock})
           /\ \A i \in 1..Len(created') :
                /\ created'[i] \notin openFds
                /\ (created'[i] = ais_sock') # (created'[i] \in Descriptors(closed'))
           /\ Cardinality(Descriptors(closed')) = Len(closed')
           /\ Descriptors(closed') \subseteq openFds \cup Descriptors(created')
           /\ openFds' = (openFds \cup Descriptors(created')) \ Descriptors(closed')
           /\ TeardownStep => closed' = <<ais_sock>>
           /\ (Connected /\ Connected') => (closed' = <<>> /\ ais_sock' = ais_sock)
           /\ ev' \in ConnectionEvents => (Connected /\ ais_sock \in openFds)
         ]_vars

\* the second connection, on the descriptor the first one had, has been torn down
\* and its socket closed; a socket created since then was closed when its connect
\* failed
C27_Witness ==
    /\ ev = "connect_failed"
    /\ created = <<MtSock + 1>>
    /\ closed = <<MtSock + 1>>
    /\ openFds = {MtSock}
    /\ ais_sock = NoSock
    /\ notified = <<StartedTitle, LostTitle, RestoredTitle, ClosedTitle>>

====
